---------------------------- MODULE Spec2Model ----------------------------
(***************************************************************************)
(* A model of the dryas torrent library: the fixed-width list codecs of    *)
(* meta_info.rs and tracker.rs (piece hashes, compact peers), the decoder  *)
(* of the info dictionary, the re-encoding hashed by Info::hash, the       *)
(* tracker announce of Tracker::request, the decoding of a tracker's       *)
(* answer, and the Info command of main.rs with the Torrent of lib.rs.     *)
(*                                                                         *)
(* Byte strings are sequences of integers in 0..255.  An Option is the     *)
(* empty sequence (None) or a one-element sequence (Some).                 *)
(***************************************************************************)
EXTENDS Integers, Sequences, FiniteSets, TLC

VARIABLES
    hashWire,     \* the byte string handed to HashesVisitor::visit_bytes
    hashes,       \* its result: Ok(Hashes) or Err
    hashOut,      \* Option: the bytes Serialize for Hashes produced
    peerWire,     \* the byte string handed to PeersVisitor::visit_bytes
    peers,        \* its result: Ok(Peers) or Err
    peerOut,      \* Option: the bytes Serialize for Peers produced
    file,         \* the torrent file at the path given to try_from
    parsed,       \* the result of serde_bencode::from_bytes on its bytes
    loaded,       \* the result of MetaInfo::try_from
    digestInput,  \* Option: the bytes Info::hash gave to Sha1::update
    tracker,      \* how the tracker behaves for the announce
    announce,     \* the result of Tracker::request
    sent,         \* the HTTP GET requests Tracker::request has issued
    hashCalls,    \* how many times Info::hash has been called on the value
    respWire,     \* the body handed to serde_bencode::from_bytes::<TrackerResponse>
    response,     \* its result: Ok(TrackerResponse) or Err
    torrentParsed,\* the result of serde_bencode::from_bytes::<Torrent>
    torrent,      \* the result of Torrent::try_from in the Info command
    printed,      \* what the Info command wrote
    app,          \* the App of the TUI: editing, search input, selected tab
    uiState,      \* "running", or how App::run or a call on App ended
    lastCall,     \* the method of App called last
    lastKey       \* the key event App::run read last

codecVars == <<hashWire, hashes, hashOut, peerWire, peers, peerOut>>
torrentVars == <<file, parsed, loaded, digestInput, tracker, announce, sent,
                hashCalls>>
respVars == <<respWire, response>>
cliVars == <<torrentParsed, torrent, printed>>
tuiVars == <<app, uiState, lastCall, lastKey>>
vars == <<hashWire, hashes, hashOut, peerWire, peers, peerOut,
          file, parsed, loaded, digestInput, tracker, announce, sent,
          hashCalls, respWire, response, torrentParsed, torrent, printed,
          app, uiState, lastCall, lastKey>>

---------------------------------------------------------------------------
(* Bounds of the model *)

\* the largest number of whole 20-byte hashes in a `pieces` input
MaxPieces == 2
\* the largest number of whole 6-byte peers in a `peers` input
MaxPeers == 2
\* the calls of Info::hash on one loaded value
MaxHashCalls == 2
\* the most chars the search input holds when its methods are called
MaxInput == 3
\* the most chars typed into the search input in the key loop
MaxTyped == 2

(* Program constants *)

\* width of a piece hash: `len % 20`, chunks_exact(20), [u8; 20]
HashWidth == 20
\* width of a compact peer: `v.len() % 6`, chunks_exact(6)
PeerWidth == 6

---------------------------------------------------------------------------
(* Generic values *)

None == <<>>
Some(x) == <<x>>
IsSome(o) == Len(o) = 1
Unwrap(o) == o[1]

\* a Result: Ok(value), or Err of some kind with a detail
Ok(v) == [ok |-> TRUE, kind |-> "ok", value |-> v]
Err(k, d) == [ok |-> FALSE, kind |-> k, detail |-> d]
\* no call has been made yet
NoResult == [ok |-> FALSE, kind |-> "none"]

Byte == 0..255

\* a byte string of length n: byte i (from 0) is seed + step * i, as a u8
Pattern(seed, step, n) == [i \in 1..n |-> (seed + step * (i - 1)) % 256]

RECURSIVE Flatten(_)
\* Vec::extend_from_slice over the elements, in order
Flatten(chunks) ==
    IF chunks = <<>> THEN <<>>
    ELSE Head(chunks) \o Flatten(Tail(chunks))

\* a faulty variant: the chunks come out last first
ChunksReversed(v, w) ==
    [i \in 1..(Len(v) \div w) |->
        SubSeq(v, w * ((Len(v) \div w) - i) + 1, w * ((Len(v) \div w) - i + 1))]

\* slice::chunks_exact(w): the whole chunks of v, in order; a remainder
\* shorter than w is left out
ChunksExact(v, w) ==
    [i \in 1..(Len(v) \div w) |-> SubSeq(v, w * (i - 1) + 1, w * i)]

---------------------------------------------------------------------------
(* meta_info.rs: Hashes *)

\* a faulty variant: the length check is gone, the remainder is dropped
HashesVisitBytesNoCheck(v) == Ok(ChunksExact(v, HashWidth))

\* HashesVisitor::visit_bytes
HashesVisitBytes(v) ==
    IF Len(v) % HashWidth # 0
    THEN Err("custom", Len(v))
    ELSE Ok(ChunksExact(v, HashWidth))

\* a faulty variant: the last hash is not written
HashesSerializeDropLast(hs) ==
    Flatten(SubSeq(hs, 1, Len(hs) - 1))

\* Serialize for Hashes: the hashes concatenated into one byte string
HashesSerialize(hs) == Flatten(hs)

---------------------------------------------------------------------------
(* tracker.rs: Peers *)

\* u16::from_be_bytes([hi, lo])
U16FromBe(hi, lo) == 256 * hi + lo
\* u16::to_be_bytes
U16ToBe(p) == <<p \div 256, p % 256>>

\* a faulty variant: the port is read little-endian
PeerOfChunkLe(chunk) ==
    [ip |-> SubSeq(chunk, 1, 4), port |-> U16FromBe(chunk[6], chunk[5])]

\* the loop body of PeersVisitor::visit_bytes: one SocketAddrV4 per chunk
PeerOfChunk(chunk) ==
    [ip |-> <<chunk[1], chunk[2], chunk[3], chunk[4]>>,
     port |-> U16FromBe(chunk[5], chunk[6])]

\* PeersVisitor::visit_bytes
PeersVisitBytes(v) ==
    IF Len(v) % PeerWidth # 0
    THEN Err("custom", Len(v))
    ELSE LET chunks == ChunksExact(v, PeerWidth)
         IN  Ok([i \in 1..Len(chunks) |-> PeerOfChunk(chunks[i])])

\* a faulty variant: a delimiter byte after every peer
PeerBytesDelimited(peer) == peer.ip \o U16ToBe(peer.port) \o <<0>>

\* the loop body of Serialize for Peers: octets, then the port big-endian
PeerBytes(peer) == peer.ip \o U16ToBe(peer.port)

\* Serialize for Peers
PeersSerialize(ps) == Flatten([i \in 1..Len(ps) |-> PeerBytes(ps[i])])

---------------------------------------------------------------------------
(* Bencoded documents.  A document is a tree: an integer, a byte string, a *)
(* list, or a dictionary, which is a sequence of <<key, value>> entries in *)
(* the order they stand in the file.                                       *)

BInt(n) == [t |-> "int", v |-> n]
BStr(b) == [t |-> "str", v |-> b]
BList(xs) == [t |-> "list", v |-> xs]
BDict(es) == [t |-> "dict", v |-> es]

\* the keys of the documents, as bytes
K_name == <<110, 97, 109, 101>>
K_piece_length == <<112, 105, 101, 99, 101, 32, 108, 101, 110, 103, 116, 104>>
K_pieces == <<112, 105, 101, 99, 101, 115>>
K_private == <<112, 114, 105, 118, 97, 116, 101>>
K_length == <<108, 101, 110, 103, 116, 104>>
K_files == <<102, 105, 108, 101, 115>>
K_path == <<112, 97, 116, 104>>
K_announce == <<97, 110, 110, 111, 117, 110, 99, 101>>
K_info == <<105, 110, 102, 111>>
\* "length or files", the name KeysVisitor gives the field it misses
K_length_or_files ==
    <<108, 101, 110, 103, 116, 104, 32, 111, 114, 32, 102, 105, 108, 101, 115>>
\* the names of the variants of Key, which serde writes for an enum
K_SingleFile == <<83, 105, 110, 103, 108, 101, 70, 105, 108, 101>>
K_MultiFile == <<77, 117, 108, 116, 105, 70, 105, 108, 101>>

RECURSIVE Digits(_)
\* a non-negative integer in base ten ASCII, no leading zeros
Digits(n) ==
    IF n < 10 THEN <<48 + n>>
    ELSE Append(Digits(n \div 10), 48 + (n % 10))

RECURSIVE Bencode(_)
\* the bytes of a document: i<n>e, <len>:<bytes>, l...e, d...e, with the
\* entries of a dictionary in the order given
Bencode(d) ==
    CASE d.t = "int" ->
           <<105>> \o (IF d.v < 0 THEN <<45>> \o Digits(-d.v) ELSE Digits(d.v))
                   \o <<101>>
      [] d.t = "str" -> Digits(Len(d.v)) \o <<58>> \o d.v
      [] d.t = "list" ->
           <<108>> \o Flatten([i \in 1..Len(d.v) |-> Bencode(d.v[i])]) \o <<101>>
      [] d.t = "dict" ->
           <<100>>
             \o Flatten([i \in 1..Len(d.v) |->
                    Bencode(BStr(d.v[i][1])) \o Bencode(d.v[i][2])])
             \o <<101>>

\* a < b as byte strings (Vec<u8> ordering: lexicographic)
BytesLess(a, b) ==
    \E i \in 1..(Len(b)) :
        /\ \A j \in 1..(i - 1) : j <= Len(a) /\ a[j] = b[j]
        /\ i > Len(a) \/ a[i] < b[i]

RECURSIVE InsertEntry(_, _)
InsertEntry(e, sorted) ==
    IF sorted = <<>> THEN <<e>>
    ELSE IF BytesLess(e[1], Head(sorted)[1]) THEN <<e>> \o sorted
    ELSE <<Head(sorted)>> \o InsertEntry(e, Tail(sorted))

RECURSIVE SortEntries(_)
\* the entries sorted by key, as the bencode serializer writes a map
SortEntries(es) ==
    IF es = <<>> THEN <<>>
    ELSE InsertEntry(es[Len(es)], SortEntries(SubSeq(es, 1, Len(es) - 1)))

\* the values of the entries with key k, in order
ValuesOf(es, k) ==
    LET idx == {i \in 1..Len(es) : es[i][1] = k}
        RECURSIVE Pick(_)
        Pick(i) ==
            IF i > Len(es) THEN <<>>
            ELSE IF i \in idx THEN <<es[i][2]>> \o Pick(i + 1)
            ELSE Pick(i + 1)
    IN  Pick(1)

---------------------------------------------------------------------------
(* meta_info.rs: decoding the info dictionary *)

\* String from a byte string (the inputs of the model are ASCII)
DeString(d) ==
    IF d.t = "str" THEN Ok(d.v) ELSE Err("invalid_type", d.t)

\* usize from an integer
DeUsize(d) ==
    IF d.t # "int" THEN Err("invalid_type", d.t)
    ELSE IF d.v < 0 THEN Err("invalid_value", d.v)
    ELSE Ok(d.v)

\* u8 from an integer: `private: Option<u8>`
DeU8(d) ==
    IF d.t # "int" THEN Err("invalid_type", d.t)
    ELSE IF d.v < 0 \/ d.v > 255 THEN Err("invalid_value", d.v)
    ELSE Ok(d.v)

RECURSIVE DeStrings(_)
\* Vec<String>
DeStrings(xs) ==
    IF xs = <<>> THEN Ok(<<>>)
    ELSE LET h == DeString(Head(xs))
             r == DeStrings(Tail(xs))
         IN  IF ~h.ok THEN h
             ELSE IF ~r.ok THEN r
             ELSE Ok(<<h.value>> \o r.value)

\* File { length, path }: a derived struct; other keys are skipped
DeFile(d) ==
    IF d.t # "dict" THEN Err("invalid_type", d.t)
    ELSE LET ls == ValuesOf(d.v, K_length)
             ps == ValuesOf(d.v, K_path)
         IN  IF Len(ls) > 1 THEN Err("duplicate_field", K_length)
             ELSE IF Len(ps) > 1 THEN Err("duplicate_field", K_path)
             ELSE IF Len(ls) = 0 THEN Err("missing_field", K_length)
             ELSE IF Len(ps) = 0 THEN Err("missing_field", K_path)
             ELSE LET l == DeUsize(ls[1])
                      p == IF ps[1].t = "list" THEN DeStrings(ps[1].v)
                           ELSE Err("invalid_type", ps[1].t)
                  IN  IF ~l.ok THEN l
                      ELSE IF ~p.ok THEN p
                      ELSE Ok([length |-> l.value, path |-> p.value])

RECURSIVE DeFilesReversed(_)
\* a faulty variant: the entries come out last first
DeFilesReversed(xs) ==
    IF xs = <<>> THEN Ok(<<>>)
    ELSE LET h == DeFile(Head(xs))
             r == DeFilesReversed(Tail(xs))
         IN  IF ~h.ok THEN h
             ELSE IF ~r.ok THEN r
             ELSE Ok(r.value \o <<h.value>>)

RECURSIVE DeFiles(_)
\* Vec<File>: the entries in document order
DeFiles(xs) ==
    IF xs = <<>> THEN Ok(<<>>)
    ELSE LET h == DeFile(Head(xs))
             r == DeFiles(Tail(xs))
         IN  IF ~h.ok THEN h
             ELSE IF ~r.ok THEN r
             ELSE Ok(<<h.value>> \o r.value)

SingleFile(n) == [variant |-> "SingleFile", length |-> n, files |-> <<>>]
MultiFile(fs) == [variant |-> "MultiFile", length |-> 0, files |-> fs]

\* the end of KeysVisitor::visit_map: the variant from the fields seen
KeyOf(length, files) ==
    IF IsSome(length) THEN Ok(SingleFile(Unwrap(length)))
    ELSE IF IsSome(files) THEN Ok(MultiFile(Unwrap(files)))
    ELSE Err("missing_field", K_length_or_files)

RECURSIVE KeysVisitMapLenient(_, _, _)
\* a faulty variant: a key that is neither `length` nor `files` is skipped
KeysVisitMapLenient(es, length, files) ==
    IF es = <<>> THEN KeyOf(length, files)
    ELSE LET key == Head(es)[1]
             val == Head(es)[2]
         IN  IF key = K_length THEN
                 IF IsSome(length) THEN Err("duplicate_field", K_length)
                 ELSE LET l == DeUsize(val)
                      IN  IF ~l.ok THEN l
                          ELSE KeysVisitMapLenient(Tail(es), Some(l.value), files)
             ELSE IF key = K_files THEN
                 IF IsSome(files) THEN Err("duplicate_field", K_files)
                 ELSE LET f == IF val.t = "list" THEN DeFiles(val.v)
                               ELSE Err("invalid_type", val.t)
                      IN  IF ~f.ok THEN f
                          ELSE KeysVisitMapLenient(Tail(es), length, Some(f.value))
             ELSE KeysVisitMapLenient(Tail(es), length, files)

RECURSIVE KeysVisitMapOverwrite(_, _, _)
\* a faulty variant: a second `length` or `files` replaces the first
KeysVisitMapOverwrite(es, length, files) ==
    IF es = <<>> THEN KeyOf(length, files)
    ELSE LET key == Head(es)[1]
             val == Head(es)[2]
         IN  IF key = K_length THEN
                 LET l == DeUsize(val)
                 IN  IF ~l.ok THEN l
                     ELSE KeysVisitMapOverwrite(Tail(es), Some(l.value), files)
             ELSE IF key = K_files THEN
                 LET f == IF val.t = "list" THEN DeFiles(val.v)
                          ELSE Err("invalid_type", val.t)
                 IN  IF ~f.ok THEN f
                     ELSE KeysVisitMapOverwrite(Tail(es), length, Some(f.value))
             ELSE Err("unknown_field", key)

RECURSIVE KeysVisitMap(_, _, _)
\* KeysVisitor::visit_map over the entries the flattened field is given,
\* with the fields seen so far
KeysVisitMap(es, length, files) ==
    IF es = <<>> THEN KeyOf(length, files)
    ELSE LET key == Head(es)[1]
             val == Head(es)[2]
         IN  IF key = K_length THEN
                 IF IsSome(length) THEN Err("duplicate_field", K_length)
                 ELSE LET l == DeUsize(val)
                      IN  IF ~l.ok THEN l
                          ELSE KeysVisitMap(Tail(es), Some(l.value), files)
             ELSE IF key = K_files THEN
                 IF IsSome(files) THEN Err("duplicate_field", K_files)
                 ELSE LET f == IF val.t = "list" THEN DeFiles(val.v)
                               ELSE Err("invalid_type", val.t)
                      IN  IF ~f.ok THEN f
                          ELSE KeysVisitMap(Tail(es), length, Some(f.value))
             ELSE Err("unknown_field", key)

\* the fields of Info that the derived visitor has seen so far; `collect`
\* holds the entries it keeps for the flattened field
EmptyFields ==
    [name |-> None, piece_length |-> None, pieces |-> None, private |-> None,
     collect |-> <<>>]

RECURSIVE InfoVisitMap(_, _)
\* the loop of the derived Deserialize of Info (with a flattened field):
\* each named field is decoded where it stands, a second occurrence is an
\* error, every other entry is kept for the flattened field
InfoVisitMap(es, acc) ==
    IF es = <<>> THEN Ok(acc)
    ELSE LET key == Head(es)[1]
             val == Head(es)[2]
         IN  IF key = K_name THEN
                 IF IsSome(acc.name) THEN Err("duplicate_field", key)
                 ELSE LET r == DeString(val)
                      IN  IF ~r.ok THEN r
                          ELSE InfoVisitMap(Tail(es), [acc EXCEPT !.name = Some(r.value)])
             ELSE IF key = K_piece_length THEN
                 IF IsSome(acc.piece_length) THEN Err("duplicate_field", key)
                 ELSE LET r == DeUsize(val)
                      IN  IF ~r.ok THEN r
                          ELSE InfoVisitMap(Tail(es),
                                   [acc EXCEPT !.piece_length = Some(r.value)])
             ELSE IF key = K_pieces THEN
                 IF IsSome(acc.pieces) THEN Err("duplicate_field", key)
                 ELSE LET r == IF val.t = "str" THEN HashesVisitBytes(val.v)
                               ELSE Err("invalid_type", val.t)
                      IN  IF ~r.ok THEN r
                          ELSE InfoVisitMap(Tail(es), [acc EXCEPT !.pieces = Some(r.value)])
             ELSE IF key = K_private THEN
                 IF IsSome(acc.private) THEN Err("duplicate_field", key)
                 ELSE LET r == DeU8(val)
                      IN  IF ~r.ok THEN r
                          ELSE InfoVisitMap(Tail(es), [acc EXCEPT !.private = Some(r.value)])
             ELSE InfoVisitMap(Tail(es),
                      [acc EXCEPT !.collect = Append(acc.collect, Head(es))])

\* Deserialize for Info: the named fields, then the flattened `key` from
\* the entries that are left
DeInfo(d) ==
    IF d.t # "dict" THEN Err("invalid_type", d.t)
    ELSE LET seen == InfoVisitMap(d.v, EmptyFields)
         IN  IF ~seen.ok THEN seen
             ELSE LET acc == seen.value
                  IN  IF ~IsSome(acc.name) THEN Err("missing_field", K_name)
                      ELSE IF ~IsSome(acc.piece_length)
                          THEN Err("missing_field", K_piece_length)
                      ELSE IF ~IsSome(acc.pieces) THEN Err("missing_field", K_pieces)
                      ELSE LET key == KeysVisitMap(acc.collect, None, None)
                           IN  IF ~key.ok THEN key
                               ELSE Ok([name |-> Unwrap(acc.name),
                                        piece_length |-> Unwrap(acc.piece_length),
                                        pieces |-> Unwrap(acc.pieces),
                                        private |-> acc.private,
                                        key |-> key.value])

\* Info::private: false for None and for Some(0), true for any other value
InfoPrivate(info) ==
    IF IsSome(info.private) THEN Unwrap(info.private) # 0 ELSE FALSE

---------------------------------------------------------------------------
(* meta_info.rs: the bytes Info::hash hashes *)

\* Serialize for File: a struct, written as a dictionary
SerFile(f) ==
    BDict(SortEntries(<<
        <<K_length, BInt(f.length)>>,
        <<K_path, BList([i \in 1..Len(f.path) |-> BStr(f.path[i])])>> >>))

\* the derived Serialize of the enum Key through a flattened field: one
\* entry, the variant's name, whose value is the dictionary of its fields
SerKey(key) ==
    IF key.variant = "SingleFile"
    THEN <<K_SingleFile, BDict(<< <<K_length, BInt(key.length)>> >>)>>
    ELSE <<K_MultiFile,
           BDict(<< <<K_files,
                      BList([i \in 1..Len(key.files) |-> SerFile(key.files[i])])>> >>)>>

\* the derived Serialize of Info: the fields in declaration order, a None
\* left out, then the flattened key; the serializer sorts the entries
SerInfo(info) ==
    BDict(SortEntries(
        << <<K_name, BStr(info.name)>>,
           <<K_piece_length, BInt(info.piece_length)>>,
           <<K_pieces, BStr(HashesSerialize(info.pieces))>> >>
        \o (IF IsSome(info.private)
            THEN << <<K_private, BInt(Unwrap(info.private))>> >> ELSE <<>>)
        \o <<SerKey(info.key)>>))

\* a faulty variant: one hasher kept across the calls, so that a later call
\* digests the bytes of the earlier call as well
InfoHashInputAccumulated(info) ==
    IF hashCalls = 0 THEN Bencode(SerInfo(info))
    ELSE Bencode(SerInfo(info)) \o Bencode(SerInfo(info))

\* a faulty variant: the bytes the info dictionary has in the file are
\* hashed, not a re-encoding of the decoded value
InfoHashInputOriginal(info) == Bencode(ValuesOf(file.doc.v, K_info)[1])

\* the argument of Sha1::update in Info::hash, on a hasher made by the call
InfoHashInput(info) == Bencode(SerInfo(info))

---------------------------------------------------------------------------
(* meta_info.rs: MetaInfo *)


\* the derived Deserialize of MetaInfo: `info` and `announce` are required;
\* the optional fields (announce-list, creation date, comment, created by,
\* encoding) stay None for the documents of the model, which hold none
DeMetaInfo(d) ==
    IF d.t # "dict" THEN Err("invalid_type", d.t)
    ELSE LET is == ValuesOf(d.v, K_info)
             as == ValuesOf(d.v, K_announce)
         IN  IF Len(is) > 1 THEN Err("duplicate_field", K_info)
             ELSE IF Len(as) > 1 THEN Err("duplicate_field", K_announce)
             ELSE IF Len(is) = 0 THEN Err("missing_field", K_info)
             ELSE IF Len(as) = 0 THEN Err("missing_field", K_announce)
             ELSE LET i == DeInfo(is[1])
                      a == DeString(as[1])
                  IN  IF ~i.ok THEN i
                      ELSE IF ~a.ok THEN a
                      ELSE Ok([info |-> i.value, announce |-> a.value])

\* a faulty variant: the file is read with no check that the path exists,
\* so a missing file is reported as one that cannot be read
TryFromPathReadsFirst(f) ==
    IF ~f.exists \/ ~f.readable THEN Err("UnableToReadFile", <<>>)
    ELSE LET r == DeMetaInfo(f.doc)
         IN  IF r.ok THEN Ok(r.value) ELSE Err("BencodeParseFailed", <<>>)

\* TryFrom<PathBuf> for MetaInfo, on the file f at the path
TryFromPath(f) ==
    IF ~f.exists THEN Err("InvalidPath", <<>>)
    ELSE IF ~f.readable THEN Err("UnableToReadFile", <<>>)
    ELSE LET r == DeMetaInfo(f.doc)
         IN  IF r.ok THEN Ok(r.value) ELSE Err("BencodeParseFailed", <<>>)

---------------------------------------------------------------------------
(* lib.rs: Torrent, the description the Info command decodes.  Its Info    *)
(* has the fields name, piece length and pieces and the flattened key, and *)
(* no field `private`; File and Hashes are those of meta_info.rs.          *)

K_File == <<70, 105, 108, 101>>
K_Files == <<70, 105, 108, 101, 115>>

KeyFile(n) == [variant |-> "File", length |-> n, files |-> <<>>]
KeyFiles(fs) == [variant |-> "Files", length |-> 0, files |-> fs]

\* the end of KeysVisitor::visit_map of lib.rs
TorrentKeyOf(length, files) ==
    IF IsSome(length) THEN Ok(KeyFile(Unwrap(length)))
    ELSE IF IsSome(files) THEN Ok(KeyFiles(Unwrap(files)))
    ELSE Err("missing_field", K_length_or_files)

RECURSIVE TorrentKeysVisitMap(_, _, _)
\* KeysVisitor::visit_map of lib.rs over the entries the flattened field is
\* given
TorrentKeysVisitMap(es, length, files) ==
    IF es = <<>> THEN TorrentKeyOf(length, files)
    ELSE LET key == Head(es)[1]
             val == Head(es)[2]
         IN  IF key = K_length THEN
                 IF IsSome(length) THEN Err("duplicate_field", K_length)
                 ELSE LET l == DeUsize(val)
                      IN  IF ~l.ok THEN l
                          ELSE TorrentKeysVisitMap(Tail(es), Some(l.value), files)
             ELSE IF key = K_files THEN
                 IF IsSome(files) THEN Err("duplicate_field", K_files)
                 ELSE LET f == IF val.t = "list" THEN DeFiles(val.v)
                               ELSE Err("invalid_type", val.t)
                      IN  IF ~f.ok THEN f
                          ELSE TorrentKeysVisitMap(Tail(es), length, Some(f.value))
             ELSE Err("unknown_field", key)

\* the fields of lib.rs's Info that its derived visitor has seen so far
TorrentEmptyFields ==
    [name |-> None, piece_length |-> None, pieces |-> None, collect |-> <<>>]

RECURSIVE TorrentInfoVisitMap(_, _)
\* the loop of the derived Deserialize of lib.rs's Info: name, piece length
\* and pieces are decoded where they stand; every other entry, `private`
\* among them, is kept for the flattened field
TorrentInfoVisitMap(es, acc) ==
    IF es = <<>> THEN Ok(acc)
    ELSE LET key == Head(es)[1]
             val == Head(es)[2]
         IN  IF key = K_name THEN
                 IF IsSome(acc.name) THEN Err("duplicate_field", key)
                 ELSE LET r == DeString(val)
                      IN  IF ~r.ok THEN r
                          ELSE TorrentInfoVisitMap(Tail(es),
                                   [acc EXCEPT !.name = Some(r.value)])
             ELSE IF key = K_piece_length THEN
                 IF IsSome(acc.piece_length) THEN Err("duplicate_field", key)
                 ELSE LET r == DeUsize(val)
                      IN  IF ~r.ok THEN r
                          ELSE TorrentInfoVisitMap(Tail(es),
                                   [acc EXCEPT !.piece_length = Some(r.value)])
             ELSE IF key = K_pieces THEN
                 IF IsSome(acc.pieces) THEN Err("duplicate_field", key)
                 ELSE LET r == IF val.t = "str" THEN HashesVisitBytes(val.v)
                               ELSE Err("invalid_type", val.t)
                      IN  IF ~r.ok THEN r
                          ELSE TorrentInfoVisitMap(Tail(es),
                                   [acc EXCEPT !.pieces = Some(r.value)])
             ELSE TorrentInfoVisitMap(Tail(es),
                      [acc EXCEPT !.collect = Append(acc.collect, Head(es))])

\* Deserialize for lib.rs's Info
DeTorrentInfo(d) ==
    IF d.t # "dict" THEN Err("invalid_type", d.t)
    ELSE LET seen == TorrentInfoVisitMap(d.v, TorrentEmptyFields)
         IN  IF ~seen.ok THEN seen
             ELSE LET acc == seen.value
                  IN  IF ~IsSome(acc.name) THEN Err("missing_field", K_name)
                      ELSE IF ~IsSome(acc.piece_length)
                          THEN Err("missing_field", K_piece_length)
                      ELSE IF ~IsSome(acc.pieces) THEN Err("missing_field", K_pieces)
                      ELSE LET key == TorrentKeysVisitMap(acc.collect, None, None)
                           IN  IF ~key.ok THEN key
                               ELSE Ok([name |-> Unwrap(acc.name),
                                        piece_length |-> Unwrap(acc.piece_length),
                                        pieces |-> Unwrap(acc.pieces),
                                        key |-> key.value])

\* the derived Deserialize of Torrent: `announce` and `info`
DeTorrent(d) ==
    IF d.t # "dict" THEN Err("invalid_type", d.t)
    ELSE LET is == ValuesOf(d.v, K_info)
             as == ValuesOf(d.v, K_announce)
         IN  IF Len(is) > 1 THEN Err("duplicate_field", K_info)
             ELSE IF Len(as) > 1 THEN Err("duplicate_field", K_announce)
             ELSE IF Len(as) = 0 THEN Err("missing_field", K_announce)
             ELSE IF Len(is) = 0 THEN Err("missing_field", K_info)
             ELSE LET i == DeTorrentInfo(is[1])
                      a == DeString(as[1])
                  IN  IF ~i.ok THEN i
                      ELSE IF ~a.ok THEN a
                      ELSE Ok([announce |-> a.value, info |-> i.value])

\* TryFrom<PathBuf> for Torrent, on the file f at the path
TorrentTryFromPath(f) ==
    IF ~f.exists THEN Err("InvalidPath", <<>>)
    ELSE IF ~f.readable THEN Err("UnableToReadFile", <<>>)
    ELSE LET r == DeTorrent(f.doc)
         IN  IF r.ok THEN Ok(r.value) ELSE Err("BencodeParseFailed", <<>>)

\* the derived Serialize of lib.rs's Key through the flattened field
TorrentSerKey(key) ==
    IF key.variant = "File"
    THEN <<K_File, BDict(<< <<K_length, BInt(key.length)>> >>)>>
    ELSE <<K_Files,
           BDict(<< <<K_files,
                      BList([i \in 1..Len(key.files) |-> SerFile(key.files[i])])>> >>)>>

\* the derived Serialize of lib.rs's Info
TorrentSerInfo(info) ==
    BDict(SortEntries(
        << <<K_name, BStr(info.name)>>,
           <<K_piece_length, BInt(info.piece_length)>>,
           <<K_pieces, BStr(HashesSerialize(info.pieces))>>,
           TorrentSerKey(info.key) >>))

---------------------------------------------------------------------------
(* tracker.rs: the announce *)

K_failure_reason ==
    <<102, 97, 105, 108, 117, 114, 101, 32, 114, 101, 97, 115, 111, 110>>
K_interval == <<105, 110, 116, 101, 114, 118, 97, 108>>
K_peers == <<112, 101, 101, 114, 115>>
\* "http://"
HttpScheme == <<104, 116, 116, 112, 58, 47, 47>>
\* "20129487650173049587", the peer id of new_compact
PeerId ==
    <<50, 48, 49, 50, 57, 52, 56, 55, 54, 53, 48, 49, 55, 51, 48, 52, 57, 53, 56, 55>>
\* the port of new_compact
ListenPort == 6881

\* a call that ended in a panic (expect on an Err, todo!())
Panic(msg) == [ok |-> FALSE, kind |-> "panic", detail |-> msg]

\* the digest of a message: SHA-1 is kept symbolic, one digest per message
Sha1(m) == [sha1 |-> m]

\* Info::hash
InfoHash(info) == Sha1(InfoHashInput(info))

\* MetaInfo::len: the length of a single file; todo!() for a set of files
MetaInfoLen(m) ==
    IF m.info.key.variant = "SingleFile" THEN Ok(m.info.key.length)
    ELSE Panic("not yet implemented")

\* serde_urlencoded::from_bytes::<String>(b): the deserializer of
\* serde_urlencoded hands every target type a map of the key=value pairs
\* (deserialize_any is deserialize_map), and String takes no map, so the
\* call is an Err (invalid type: map, expected a string) for every b
UrlencodedStringFromBytes(b) == Err("invalid_type", <<>>)

\* TrackerRequest::new_compact
NewCompact(m) ==
    LET b == InfoHash(m.info)
        info_hash == UrlencodedStringFromBytes(b)
    IN  IF ~info_hash.ok THEN Panic("failed to urlencode info_hash bytes")
        ELSE LET left == MetaInfoLen(m)
             IN  IF ~left.ok THEN left
                 ELSE Ok([info_hash |-> info_hash.value,
                          peer_id |-> PeerId,
                          port |-> ListenPort,
                          ip |-> None,
                          uploaded |-> 0,
                          downloaded |-> 0,
                          left |-> left.value,
                          compact |-> TRUE])

\* reqwest::Url::parse: an absolute URL has a scheme; the tracker URLs of
\* the model are an http URL and a string with no scheme
UrlParse(u) ==
    IF Len(u) > Len(HttpScheme) /\ SubSeq(u, 1, Len(HttpScheme)) = HttpScheme
    THEN Ok(u)
    ELSE Err("RelativeUrlWithoutBase", <<>>)

\* the derived Deserialize of TrackerPeerResponse: `interval` and `peers`,
\* other keys skipped
DeTrackerPeerResponse(d) ==
    IF d.t # "dict" THEN Err("invalid_type", d.t)
    ELSE LET is == ValuesOf(d.v, K_interval)
             ps == ValuesOf(d.v, K_peers)
         IN  IF Len(is) > 1 THEN Err("duplicate_field", K_interval)
             ELSE IF Len(ps) > 1 THEN Err("duplicate_field", K_peers)
             ELSE IF Len(is) = 0 THEN Err("missing_field", K_interval)
             ELSE IF Len(ps) = 0 THEN Err("missing_field", K_peers)
             ELSE LET i == DeUsize(is[1])
                      p == IF ps[1].t = "str" THEN PeersVisitBytes(ps[1].v)
                           ELSE Err("invalid_type", ps[1].t)
                  IN  IF ~i.ok THEN i
                      ELSE IF ~p.ok THEN p
                      ELSE Ok([variant |-> "Success", interval |-> i.value,
                               peers |-> p.value, failure_reason |-> <<>>])

\* the derived Deserialize of TrackerFailureResponse: `failure reason`
DeTrackerFailureResponse(d) ==
    IF d.t # "dict" THEN Err("invalid_type", d.t)
    ELSE LET fs == ValuesOf(d.v, K_failure_reason)
         IN  IF Len(fs) > 1 THEN Err("duplicate_field", K_failure_reason)
             ELSE IF Len(fs) = 0 THEN Err("missing_field", K_failure_reason)
             ELSE LET f == DeString(fs[1])
                  IN  IF ~f.ok THEN f
                      ELSE Ok([variant |-> "Failure", interval |-> 0,
                               peers |-> <<>>, failure_reason |-> f.value])

\* serde_bencode::from_bytes::<TrackerResponse>: an untagged enum, the
\* variants tried in the order declared, Success first; a body that is
\* no bencode is an error before that
DeTrackerResponse(d) ==
    IF d.t = "garbage" THEN Err("syntax", <<>>)
    ELSE LET s == DeTrackerPeerResponse(d)
             f == DeTrackerFailureResponse(d)
         IN  IF s.ok THEN s
             ELSE IF f.ok THEN f
             ELSE Err("custom", <<>>)

\* a faulty variant: the GET is issued before the request is built, with a
\* query that holds no length
TrackerRequestSendsFirst(m, t) ==
    LET request == NewCompact(m)
        early == <<[url |-> m.announce, query |-> [left |-> 0, compact |-> TRUE]]>>
    IN  IF request.kind = "panic" THEN [result |-> request, sent |-> early]
        ELSE LET url == UrlParse(m.announce)
                 get == <<[url |-> m.announce, query |-> request.value]>>
             IN  IF ~url.ok THEN [result |-> Err("unit", <<>>), sent |-> <<>>]
                 ELSE IF ~t.getOk THEN [result |-> Err("unit", <<>>), sent |-> get]
                 ELSE IF ~t.bytesOk THEN [result |-> Err("unit", <<>>), sent |-> get]
                 ELSE LET res == DeTrackerResponse(t.body)
                      IN  IF ~res.ok THEN [result |-> Panic("msg"), sent |-> get]
                          ELSE [result |-> Ok(res.value), sent |-> get]

\* Tracker::request against a tracker that behaves as t says: the result,
\* and the GET requests issued on the way
TrackerRequest(m, t) ==
    LET request == NewCompact(m)
    IN  IF request.kind = "panic" THEN [result |-> request, sent |-> <<>>]
        ELSE LET url == UrlParse(m.announce)
                 get == <<[url |-> m.announce, query |-> request.value]>>
             IN  IF ~url.ok THEN [result |-> Err("unit", <<>>), sent |-> <<>>]
                 ELSE IF ~t.getOk THEN [result |-> Err("unit", <<>>), sent |-> get]
                 ELSE IF ~t.bytesOk THEN [result |-> Err("unit", <<>>), sent |-> get]
                 ELSE LET res == DeTrackerResponse(t.body)
                      IN  IF ~res.ok THEN [result |-> Panic("msg"), sent |-> get]
                          ELSE [result |-> Ok(res.value), sent |-> get]

---------------------------------------------------------------------------
(* tui.rs: the tabs and the search input of App.  A char is its code       *)
(* point, a String the sequence of its chars; a byte index into a String   *)
(* counts the UTF-8 bytes of the chars before it.                          *)

\* Tab as usize, and Tab::from_repr
TabIndex(tab) ==
    CASE tab = "Torrents" -> 0 [] tab = "Settings" -> 1 [] tab = "Search" -> 2

TabFromRepr(i) ==
    CASE i = 0 -> Some("Torrents") [] i = 1 -> Some("Settings")
      [] i = 2 -> Some("Search") [] OTHER -> None

\* usize::saturating_sub(1); saturating_add(1) is i + 1 for the indexes of
\* the model, far below usize::MAX
SaturatingSub1(i) == IF i = 0 THEN 0 ELSE i - 1
SaturatingAdd1(i) == i + 1

\* Option::unwrap_or
UnwrapOr(o, d) == IF IsSome(o) THEN Unwrap(o) ELSE d

\* a faulty variant: the tab before the first is the last
TabPreviousWrapping(tab) ==
    IF TabIndex(tab) = 0 THEN "Search"
    ELSE UnwrapOr(TabFromRepr(TabIndex(tab) - 1), tab)

\* Tab::previous
TabPrevious(tab) == UnwrapOr(TabFromRepr(SaturatingSub1(TabIndex(tab))), tab)

\* Tab::next
TabNext(tab) == UnwrapOr(TabFromRepr(SaturatingAdd1(TabIndex(tab))), tab)

\* char::len_utf8, for the code points below 0x10000
LenUtf8(c) == IF c < 128 THEN 1 ELSE IF c < 2048 THEN 2 ELSE 3

\* char::is_whitespace, for the chars of the model: the space
IsWhitespace(c) == c = 32

RECURSIVE StrLen(_)
\* String::len: the number of bytes
StrLen(v) == IF v = <<>> THEN 0 ELSE LenUtf8(Head(v)) + StrLen(Tail(v))

\* the byte index of the char at place k (from 1), and of the end for
\* k = Len(v) + 1
ByteOffset(v, k) == StrLen(SubSeq(v, 1, k - 1))

\* str::is_char_boundary
IsCharBoundary(v, b) == \E k \in 1..(Len(v) + 1) : ByteOffset(v, k) = b

\* the number of chars that end at or before the char boundary b
CharsUpTo(v, b) == CHOOSE k \in 0..Len(v) : ByteOffset(v, k + 1) = b

\* App::default()
DefaultApp ==
    [editing |-> FALSE, value |-> <<>>, cursor_index |-> 0,
     selected_tab |-> "Torrents"]

\* App::clamp_cursor
ClampCursor(self, new_cursor_pos) ==
    IF new_cursor_pos > Len(self.value) THEN Len(self.value) ELSE new_cursor_pos

\* App::move_cursor_left
MoveCursorLeft(self) ==
    [self EXCEPT !.cursor_index = ClampCursor(self, SaturatingSub1(@))]

\* App::move_cursor_right
MoveCursorRight(self) ==
    [self EXCEPT !.cursor_index = ClampCursor(self, SaturatingAdd1(@))]

\* App::byte_index: the byte index of the char at the cursor, or the
\* length when there is none
ByteIndex(self) ==
    IF self.cursor_index < Len(self.value)
    THEN ByteOffset(self.value, self.cursor_index + 1)
    ELSE StrLen(self.value)

\* App::delete_char: the char before the cursor is left out
DeleteChar(self) ==
    IF self.cursor_index = 0 THEN self
    ELSE LET current_index == self.cursor_index
             value == [i \in 1..(Len(self.value) - 1) |->
                          IF i < current_index THEN self.value[i]
                          ELSE self.value[i + 1]]
         IN  IF current_index > Len(self.value) THEN MoveCursorLeft(self)
             ELSE MoveCursorLeft([self EXCEPT !.value = value])

\* the greatest member of a non-empty set of numbers
Greatest(S) == CHOOSE i \in S : \A j \in S : j <= i

\* App::delete_word.  cursor_index, a count of chars, is used as a byte
\* index; a slice of a str at a byte index that is no char boundary panics
DeleteWord(self) ==
    LET v == self.value
        cursor_index == self.cursor_index
    IN  IF cursor_index = 0 \/ cursor_index > StrLen(v) THEN Ok(self)
        ELSE IF ~IsCharBoundary(v, cursor_index)
        THEN Panic("byte index is not a char boundary")
        ELSE
        LET k == CharsUpTo(v, cursor_index)
            nonws == {i \in 1..k : ~IsWhitespace(v[i])}
            \* rfind gives the byte index at which the char starts
            trimmed_cursor == IF nonws = {} THEN cursor_index
                              ELSE ByteOffset(v, Greatest(nonws)) + 1
        IN  IF ~IsCharBoundary(v, trimmed_cursor)
            THEN Panic("byte index is not a char boundary")
            ELSE
            LET kt == CharsUpTo(v, trimmed_cursor)
                ws == {i \in 1..kt : IsWhitespace(v[i])}
                start_of_word == IF ws = {} THEN 0
                                 ELSE ByteOffset(v, Greatest(ws)) + 1
            IN  IF ~IsCharBoundary(v, start_of_word)
                THEN Panic("byte index is not a char boundary")
                ELSE
                LET ks == CharsUpTo(v, start_of_word)
                    \* replace_range(start_of_word..trimmed_cursor, "")
                    removed == SubSeq(v, 1, ks) \o SubSeq(v, kt + 1, Len(v))
                    cleanup == /\ start_of_word > 0
                               /\ start_of_word < StrLen(removed)
                               /\ removed[ks + 1] = 32
                    \* replace_range(start_of_word..=start_of_word, "")
                    value == IF cleanup
                             THEN SubSeq(removed, 1, ks)
                                    \o SubSeq(removed, ks + 2, Len(removed))
                             ELSE removed
                    edited == [self EXCEPT !.value = value]
                    cursor == cursor_index
                                - ClampCursor(edited, trimmed_cursor - start_of_word)
                IN  Ok(MoveCursorLeft([edited EXCEPT !.cursor_index = cursor]))

\* App::enter_char: String::insert at the byte index of the cursor, which
\* is a char boundary
EnterChar(self, new_char) ==
    LET k == CharsUpTo(self.value, ByteIndex(self))
        value == SubSeq(self.value, 1, k) \o <<new_char>>
                   \o SubSeq(self.value, k + 1, Len(self.value))
    IN  MoveCursorRight([self EXCEPT !.value = value])

\* App::next_tab and App::previous_tab
NextTab(self) == [self EXCEPT !.selected_tab = TabNext(@)]
PreviousTab(self) == [self EXCEPT !.selected_tab = TabPrevious(@)]

\* the loop of App::run has returned Ok(())
Quit(self) == [ok |-> TRUE, kind |-> "quit", value |-> self]

\* a key event: its code, the char of a Char code, and whether the
\* modifiers are exactly CONTROL
Key(code, char, ctrl) == [code |-> code, char |-> char, ctrl |-> ctrl]
NoKey == Key("None", 0, FALSE)

\* the match of App::run on an event while editing is true
HandleEditing(self, key) ==
    CASE key.code = "Esc" -> Ok([self EXCEPT !.editing = FALSE])
      [] key.code = "Enter" -> Ok(self)
      [] key.code = "Left" -> Ok(MoveCursorLeft(self))
      [] key.code = "Right" -> Ok(MoveCursorRight(self))
      [] key.code = "Char" /\ key.char = 119 /\ key.ctrl -> DeleteWord(self)
      [] key.code = "Char" /\ ~(key.char = 119 /\ key.ctrl) ->
             Ok(EnterChar(self, key.char))
      [] key.code = "Backspace" -> Ok(DeleteChar(self))
      [] OTHER -> Ok(self)

\* a faulty variant of the match: '/' turns editing on whatever tab is
\* selected
HandleNormalSlashAnywhere(self, key) ==
    CASE key.code = "Right" \/ (key.code = "Char" /\ key.char = 108) ->
             Ok(NextTab(self))
      [] key.code = "Left" \/ (key.code = "Char" /\ key.char = 104) ->
             Ok(PreviousTab(self))
      [] key.code = "Char" /\ key.char = 47 ->
             Ok([self EXCEPT !.editing = TRUE])
      [] key.code = "Esc" ->
             IF self.selected_tab = "Search"
             THEN Ok([self EXCEPT !.editing = FALSE])
             ELSE Panic("not yet implemented")
      [] key.code = "Char" /\ key.char = 49 ->
             Ok([self EXCEPT !.selected_tab = "Torrents"])
      [] key.code = "Char" /\ key.char = 50 ->
             Ok([self EXCEPT !.selected_tab = "Settings"])
      [] key.code = "Char" /\ key.char = 51 ->
             Ok([self EXCEPT !.selected_tab = "Search"])
      [] key.code = "Char" /\ key.char = 113 -> Quit(self)
      [] OTHER -> Ok(self)

\* the match of App::run on an event while editing is false
HandleNormal(self, key) ==
    CASE key.code = "Right" \/ (key.code = "Char" /\ key.char = 108) ->
             Ok(NextTab(self))
      [] key.code = "Left" \/ (key.code = "Char" /\ key.char = 104) ->
             Ok(PreviousTab(self))
      [] key.code = "Char" /\ key.char = 47 ->
             IF self.selected_tab = "Search"
             THEN Ok([self EXCEPT !.editing = TRUE]) ELSE Ok(self)
      [] key.code = "Esc" ->
             IF self.selected_tab = "Search"
             THEN Ok([self EXCEPT !.editing = FALSE])
             ELSE Panic("not yet implemented")
      [] key.code = "Char" /\ key.char = 49 ->
             Ok([self EXCEPT !.selected_tab = "Torrents"])
      [] key.code = "Char" /\ key.char = 50 ->
             Ok([self EXCEPT !.selected_tab = "Settings"])
      [] key.code = "Char" /\ key.char = 51 ->
             Ok([self EXCEPT !.selected_tab = "Search"])
      [] key.code = "Char" /\ key.char = 113 -> Quit(self)
      [] OTHER -> Ok(self)

\* one turn of the loop of App::run on the event read
HandleEvent(self, key) ==
    IF self.editing THEN HandleEditing(self, key) ELSE HandleNormal(self, key)

---------------------------------------------------------------------------
(* Inputs of the codecs *)

\* <<seed, step>> of the byte patterns: all zero, counting, wrapping
Patterns == {<<0, 0>>, <<1, 1>>, <<250, 3>>}

\* every length from 0 to one past MaxPieces whole hashes
HashInputs ==
    {Pattern(p[1], p[2], n) : p \in Patterns, n \in 0..(HashWidth * MaxPieces + 1)}

\* 192.168.1.1:6881, 10.0.0.2:80, 255.255.255.255:65535, 0.0.0.0:256
PeerSamples ==
    {<<192, 168, 1, 1, 26, 225>>, <<10, 0, 0, 2, 0, 80>>,
     <<255, 255, 255, 255, 255, 255>>, <<0, 0, 0, 0, 1, 0>>}

RECURSIVE SeqsUpTo(_, _)
\* the sequences over S of length at most n
SeqsUpTo(S, n) ==
    IF n = 0 THEN {<<>>}
    ELSE LET shorter == SeqsUpTo(S, n - 1)
         IN  shorter \cup {Append(s, x) : s \in shorter, x \in S}

\* whole peers followed by a tail of 0 to 5 bytes
PeerInputs ==
    {Flatten(ps) \o Pattern(7, 1, t) :
        ps \in SeqsUpTo(PeerSamples, MaxPeers), t \in 0..(PeerWidth - 1)}

---------------------------------------------------------------------------
(* The codecs as state machines *)

\* a body that is no bencoded document
Garbage == [t |-> "garbage", v |-> <<>>]

\* no announce has been made
NoTracker == [getOk |-> FALSE, bytesOk |-> FALSE, body |-> Garbage]

\* no file has been named
NoFile == [exists |-> FALSE, readable |-> FALSE, doc |-> BStr(<<>>)]

Init ==
    /\ hashWire = <<>>
    /\ hashes = NoResult
    /\ hashOut = None
    /\ peerWire = <<>>
    /\ peers = NoResult
    /\ peerOut = None
    /\ file = NoFile
    /\ parsed = NoResult
    /\ loaded = NoResult
    /\ digestInput = None
    /\ tracker = NoTracker
    /\ announce = NoResult
    /\ sent = <<>>
    /\ hashCalls = 0
    /\ respWire = Garbage
    /\ response = NoResult
    /\ torrentParsed = NoResult
    /\ torrent = NoResult
    /\ printed = <<>>
    /\ app = DefaultApp
    /\ uiState = "running"
    /\ lastCall = "none"
    /\ lastKey = NoKey

\* Deserialize for Hashes: deserialize_bytes(HashesVisitor)
DeserializeHashes ==
    \E v \in HashInputs :
        /\ hashWire' = v
        /\ hashes' = HashesVisitBytes(v)
        /\ hashOut' = None
        /\ UNCHANGED <<peerWire, peers, peerOut>>
        /\ UNCHANGED torrentVars
        /\ UNCHANGED <<respVars, cliVars, tuiVars>>

\* Serialize for Hashes, on a decoded value
SerializeHashes ==
    /\ hashes.ok
    /\ hashOut' = Some(HashesSerialize(hashes.value))
    /\ UNCHANGED <<hashWire, hashes, peerWire, peers, peerOut>>
    /\ UNCHANGED torrentVars
    /\ UNCHANGED <<respVars, cliVars, tuiVars>>

\* Deserialize for Peers: deserialize_bytes(PeersVisitor)
DeserializePeers ==
    \E v \in PeerInputs :
        /\ peerWire' = v
        /\ peers' = PeersVisitBytes(v)
        /\ peerOut' = None
        /\ UNCHANGED <<hashWire, hashes, hashOut>>
        /\ UNCHANGED torrentVars
        /\ UNCHANGED <<respVars, cliVars, tuiVars>>

\* Serialize for Peers, on a decoded value
SerializePeers ==
    /\ peers.ok
    /\ peerOut' = Some(PeersSerialize(peers.value))
    /\ UNCHANGED <<hashWire, hashes, hashOut, peerWire, peers>>
    /\ UNCHANGED torrentVars
    /\ UNCHANGED <<respVars, cliVars, tuiVars>>

NextHashes == DeserializeHashes \/ SerializeHashes
NextPeers == DeserializePeers \/ SerializePeers

SpecHashes == Init /\ [][NextHashes]_vars
SpecPeers == Init /\ [][NextPeers]_vars

---------------------------------------------------------------------------
(* Torrent files *)

Reverse(q) == [i \in 1..Len(q) |-> q[Len(q) + 1 - i]]

\* "a.txt"
NameBytes == <<97, 46, 116, 120, 116>>
\* "http://t/a", and "?bad", which is no absolute URL
UrlBytes == <<104, 116, 116, 112, 58, 47, 47, 116, 47, 97>>
BadUrlBytes == <<63, 98, 97, 100>>
\* "source" and "md5sum", keys Info does not know; the one sorts after the
\* keys Info knows, the other between `length` and `name`
K_source == <<115, 111, 117, 114, 99, 101>>
K_md5sum == <<109, 100, 53, 115, 117, 109>>

\* dir/b of 3 bytes, c.bin of 1 byte, and an entry with no path segment
FileB == BDict(<< <<K_length, BInt(3)>>,
                  <<K_path, BList(<<BStr(<<100, 105, 114>>), BStr(<<98>>)>>)>> >>)
FileC == BDict(<< <<K_length, BInt(1)>>,
                  <<K_path, BList(<<BStr(<<99, 46, 98, 105, 110>>)>>)>> >>)
FileNoPath == BDict(<< <<K_length, BInt(2)>>, <<K_path, BList(<<>>)>> >>)

\* `pieces`: 0..MaxPieces whole hashes, 20 zero bytes, and 19 and 21 bytes
PiecesChoices ==
    {Pattern(1, 1, HashWidth * n) : n \in 0..MaxPieces}
      \cup {Pattern(0, 0, HashWidth),
            Pattern(1, 1, HashWidth - 1), Pattern(1, 1, HashWidth + 1)}

\* `private`: absent, 0, 1, and a value a u8 does not hold
PrivateChoices ==
    {<<>>, << <<K_private, BInt(0)>> >>, << <<K_private, BInt(1)>> >>,
     << <<K_private, BInt(256)>> >>}

\* `length`: absent, once, twice
LengthChoices ==
    {<<>>, << <<K_length, BInt(4)>> >>,
     << <<K_length, BInt(4)>>, <<K_length, BInt(5)>> >>}

\* `files`: absent, once (two entries; one entry with an empty path), twice
FilesChoices ==
    {<<>>, << <<K_files, BList(<<FileB, FileC>>)>> >>,
     << <<K_files, BList(<<FileNoPath>>)>> >>,
     << <<K_files, BList(<<FileB>>)>>, <<K_files, BList(<<FileC>>)>> >>}

\* an unknown key: absent or present
OtherChoices ==
    {<<>>, << <<K_source, BStr(<<120>>)>> >>, << <<K_md5sum, BStr(<<120>>)>> >>}

\* the info dictionaries: the entries chosen, with the keys in sorted order
\* or in the opposite order
InfoDicts ==
    {BDict(IF sorted THEN SortEntries(es) ELSE Reverse(SortEntries(es))) :
        sorted \in BOOLEAN,
        es \in {<< <<K_name, BStr(NameBytes)>>,
                   <<K_piece_length, BInt(4)>>,
                   <<K_pieces, BStr(p)>> >> \o pr \o l \o f \o o :
                  p \in PiecesChoices, pr \in PrivateChoices,
                  l \in LengthChoices, f \in FilesChoices, o \in OtherChoices}}

\* a torrent document around an info dictionary
TorrentDoc(url, info) ==
    BDict(<< <<K_announce, BStr(url)>>, <<K_info, info>> >>)

\* the files try_from may be given: missing, unreadable, or holding a document
Files ==
    {[exists |-> FALSE, readable |-> FALSE, doc |-> BStr(<<>>)],
     [exists |-> TRUE, readable |-> FALSE, doc |-> BStr(<<>>)]}
      \cup {[exists |-> TRUE, readable |-> TRUE, doc |-> TorrentDoc(u, i)] :
              u \in {UrlBytes, BadUrlBytes}, i \in InfoDicts}

\* "torrent not found" and "banned"
ReasonNotFound ==
    <<116, 111, 114, 114, 101, 110, 116, 32, 110, 111, 116, 32, 102, 111, 117,
      110, 100>>
ReasonBanned == <<98, 97, 110, 110, 101, 100>>

\* the bodies a tracker answers with: a refusal, peer lists (one of a
\* length that is no multiple of 6), both at once, an incomplete answer,
\* an empty dictionary, and bytes that are no bencode
Bodies ==
    {BDict(<< <<K_failure_reason, BStr(r)>> >>) : r \in {ReasonNotFound, ReasonBanned}}
      \cup {BDict(<< <<K_interval, BInt(1800)>>, <<K_peers, BStr(p)>> >>) :
               p \in {<<192, 168, 1, 1, 26, 225>>,
                      <<192, 168, 1, 1, 26, 225, 10, 0, 0, 2, 0, 80>>,
                      <<192, 168, 1, 1, 26, 225, 10>>}}
      \cup {BDict(<< <<K_failure_reason, BStr(ReasonBanned)>>,
                     <<K_interval, BInt(1800)>>,
                     <<K_peers, BStr(<<192, 168, 1, 1, 26, 225>>)>> >>),
            BDict(<< <<K_interval, BInt(1800)>> >>),
            BDict(<<>>),
            Garbage}

\* the GET fails, or the body cannot be read, or a body arrives
TrackerBehaviours ==
    {[getOk |-> FALSE, bytesOk |-> FALSE, body |-> Garbage],
     [getOk |-> TRUE, bytesOk |-> FALSE, body |-> Garbage]}
      \cup {[getOk |-> TRUE, bytesOk |-> TRUE, body |-> b] : b \in Bodies}

\* the info dictionary of a torrent document
InfoOf(doc) == ValuesOf(doc.v, K_info)[1]

\* the keys of a dictionary stand in strictly increasing order
Canonical(d) ==
    \A i \in 1..(Len(d.v) - 1) : BytesLess(d.v[i][1], d.v[i + 1][1])

HasKey(d, k) == \E i \in 1..Len(d.v) : d.v[i][1] = k

---------------------------------------------------------------------------
(* Loading a torrent and hashing its info dictionary *)

\* MetaInfo::try_from(path)
TryFrom ==
    /\ loaded = NoResult
    /\ \E f \in Files :
        /\ file' = f
        /\ parsed' = IF f.exists /\ f.readable THEN DeMetaInfo(f.doc) ELSE NoResult
        /\ loaded' = TryFromPath(f)
    /\ UNCHANGED <<digestInput, tracker, announce, sent, hashCalls>>
    /\ UNCHANGED codecVars
    /\ UNCHANGED <<respVars, cliVars, tuiVars>>

\* meta_info.info().hash()
Hash ==
    /\ loaded.ok
    /\ hashCalls < MaxHashCalls
    /\ digestInput' = Some(InfoHashInput(loaded.value.info))
    /\ hashCalls' = hashCalls + 1
    /\ UNCHANGED <<file, parsed, loaded, tracker, announce, sent>>
    /\ UNCHANGED codecVars
    /\ UNCHANGED <<respVars, cliVars, tuiVars>>

\* a faulty variant: the query is set on the description's own announce
\* string, not on the URL parsed from it
RequestInPlace ==
    /\ loaded.ok
    /\ announce = NoResult
    /\ \E t \in TrackerBehaviours :
        LET run == TrackerRequest(loaded.value, t)
        IN  /\ tracker' = t
            /\ announce' = run.result
            /\ sent' = sent \o run.sent
    /\ loaded' = [loaded EXCEPT !.value.announce = @ \o <<63>>]
    /\ UNCHANGED <<file, parsed, digestInput, hashCalls>>
    /\ UNCHANGED codecVars
    /\ UNCHANGED <<respVars, cliVars, tuiVars>>

\* Tracker::request(&meta_info), the tracker behaving as t says
Request ==
    /\ loaded.ok
    /\ announce = NoResult
    /\ \E t \in TrackerBehaviours :
        LET run == TrackerRequest(loaded.value, t)
        IN  /\ tracker' = t
            /\ announce' = run.result
            /\ sent' = sent \o run.sent
    /\ UNCHANGED <<file, parsed, loaded, digestInput, hashCalls>>
    /\ UNCHANGED codecVars
    /\ UNCHANGED <<respVars, cliVars, tuiVars>>

Next == TryFrom \/ Hash \/ Request

Spec == Init /\ [][Next]_vars

---------------------------------------------------------------------------
(* The methods of App, called in any order *)

\* the chars given to enter_char: a, the space, and e with an acute accent,
\* which takes two bytes
InputChars == {97, 32, 233}

CallNextTab ==
    /\ uiState = "running"
    /\ lastCall' = "next_tab"
    /\ app' = NextTab(app)
    /\ UNCHANGED <<uiState, lastKey>>
    /\ UNCHANGED <<codecVars, torrentVars, respVars, cliVars>>

CallPreviousTab ==
    /\ uiState = "running"
    /\ lastCall' = "previous_tab"
    /\ app' = PreviousTab(app)
    /\ UNCHANGED <<uiState, lastKey>>
    /\ UNCHANGED <<codecVars, torrentVars, respVars, cliVars>>

CallMoveCursorLeft ==
    /\ uiState = "running"
    /\ lastCall' = "move_cursor_left"
    /\ app' = MoveCursorLeft(app)
    /\ UNCHANGED <<uiState, lastKey>>
    /\ UNCHANGED <<codecVars, torrentVars, respVars, cliVars>>

CallMoveCursorRight ==
    /\ uiState = "running"
    /\ lastCall' = "move_cursor_right"
    /\ app' = MoveCursorRight(app)
    /\ UNCHANGED <<uiState, lastKey>>
    /\ UNCHANGED <<codecVars, torrentVars, respVars, cliVars>>

CallDeleteChar ==
    /\ uiState = "running"
    /\ lastCall' = "delete_char"
    /\ app' = DeleteChar(app)
    /\ UNCHANGED <<uiState, lastKey>>
    /\ UNCHANGED <<codecVars, torrentVars, respVars, cliVars>>

\* delete_word returns, or panics and ends the program
CallDeleteWord ==
    /\ uiState = "running"
    /\ lastCall' = "delete_word"
    /\ app' = IF DeleteWord(app).ok THEN DeleteWord(app).value ELSE app
    /\ uiState' = IF DeleteWord(app).ok THEN "running" ELSE "panic"
    /\ UNCHANGED lastKey
    /\ UNCHANGED <<codecVars, torrentVars, respVars, cliVars>>

CallEnterChar ==
    \E c \in InputChars :
        /\ uiState = "running"
        /\ Len(app.value) < MaxInput
        /\ lastCall' = "enter_char"
        /\ app' = EnterChar(app, c)
        /\ UNCHANGED <<uiState, lastKey>>
        /\ UNCHANGED <<codecVars, torrentVars, respVars, cliVars>>

NextApp ==
    \/ CallNextTab \/ CallPreviousTab
    \/ CallMoveCursorLeft \/ CallMoveCursorRight
    \/ CallDeleteChar \/ CallDeleteWord \/ CallEnterChar

SpecApp == Init /\ [][NextApp]_vars

---------------------------------------------------------------------------
(* The key loop of App::run *)

\* the events read: the keys the loop knows, chars it inserts, a key it
\* ignores, and an event that is no key
Keys ==
    {Key(c, 0, FALSE) :
        c \in {"Esc", "Enter", "Left", "Right", "Up", "Backspace", "Tab",
               "Resize"}}
      \cup {Key("Char", c, FALSE) : c \in {108, 104, 47, 49, 50, 51, 113, 32, 233}}
      \cup {Key("Char", c, TRUE) : c \in {119, 113}}

\* event::read() and the match on the event; the loop ends on a return and
\* on a panic
KeyEvent ==
    \E key \in Keys :
        LET r == HandleEvent(app, key)
        IN  /\ uiState = "running"
            /\ app.editing /\ key.code = "Char" /\ ~(key.char = 119 /\ key.ctrl)
                 => Len(app.value) < MaxTyped
            /\ lastKey' = key
            /\ app' = IF r.ok THEN r.value ELSE app
            /\ uiState' = IF r.kind = "ok" THEN "running" ELSE r.kind
            /\ UNCHANGED lastCall
            /\ UNCHANGED <<codecVars, torrentVars, respVars, cliVars>>

NextRun == KeyEvent

SpecRun == Init /\ [][NextRun]_vars

---------------------------------------------------------------------------
(* The Info command of main.rs *)

\* Info::hash of lib.rs
TorrentInfoHash(info) == Sha1(Bencode(TorrentSerInfo(info)))

\* the lines the command writes for the outcome t of Torrent::try_from
InfoCommandOutput(t) ==
    IF t.ok
    THEN <<[stream |-> "stdout", label |-> "info hash",
            value |-> Some(TorrentInfoHash(t.value.info))],
           [stream |-> "stdout", label |-> "piece length",
            value |-> Some(t.value.info.piece_length)]>>
    ELSE <<[stream |-> "stderr", label |-> "unable to parse torrent file",
            value |-> None]>>

\* Command::Info { path }, the file f at the path; the process runs the
\* command once
InfoCommand ==
    \E f \in Files :
        /\ torrent = NoResult
        /\ file' = f
        /\ torrentParsed' = IF f.exists /\ f.readable THEN DeTorrent(f.doc)
                            ELSE NoResult
        /\ torrent' = TorrentTryFromPath(f)
        /\ printed' = InfoCommandOutput(torrent')
        /\ UNCHANGED <<parsed, loaded, digestInput, tracker, announce, sent,
                       hashCalls>>
        /\ UNCHANGED <<codecVars, respVars, tuiVars>>

NextInfo == InfoCommand

SpecInfo == Init /\ [][NextInfo]_vars

---------------------------------------------------------------------------
(* Decoding the body of a tracker's answer *)

\* the bodies the decoder is given: every choice of a `failure reason`
\* (absent, or one of two reasons), an `interval` (absent, 0, 1800) and a
\* `peers` string (absent, or whole peers and a tail of 0 to 5 bytes), and
\* bodies that are no dictionary
ResponseBodies ==
    {BDict(fr \o iv \o ps) :
        fr \in {<<>>} \cup {<< <<K_failure_reason, BStr(r)>> >> :
                                r \in {ReasonNotFound, ReasonBanned}},
        iv \in {<<>>} \cup {<< <<K_interval, BInt(n)>> >> : n \in {0, 1800}},
        ps \in {<<>>} \cup {<< <<K_peers, BStr(p)>> >> : p \in PeerInputs}}
      \cup {Garbage, BStr(ReasonBanned)}

\* serde_bencode::from_bytes::<TrackerResponse>(&body): an announce decodes
\* the one body it read
DeserializeResponse ==
    \E b \in ResponseBodies :
        /\ response = NoResult
        /\ respWire' = b
        /\ response' = DeTrackerResponse(b)
        /\ UNCHANGED <<codecVars, torrentVars, cliVars, tuiVars>>

NextResponse == DeserializeResponse

SpecResponse == Init /\ [][NextResponse]_vars

---------------------------------------------------------------------------
(* Properties of loading, hashing and announcing, under Spec *)

\* the info dictionary of the file that was parsed
FileInfo == InfoOf(file.doc)

\* how often key k stands in dictionary d
Count(d, k) == Len(ValuesOf(d.v, k))

\* the file entries of the `files` value of dictionary d, as File values
FileEntriesOf(d) ==
    LET list == ValuesOf(d.v, K_files)[1].v
    IN  [i \in 1..Len(list) |->
            [length |-> ValuesOf(list[i].v, K_length)[1].v,
             path |-> LET segs == ValuesOf(list[i].v, K_path)[1].v
                      IN  [j \in 1..Len(segs) |-> segs[j].v]]]

\* apart from `length` and `files`, d is a valid info dictionary: name,
\* piece length and pieces once each, pieces a multiple of 20 bytes long,
\* private absent or 0 or 1, no other key, and no file entry without a
\* path segment
ValidButLayout(d) ==
    /\ Count(d, K_name) = 1 /\ Count(d, K_piece_length) = 1
    /\ Count(d, K_pieces) = 1
    /\ Len(ValuesOf(d.v, K_pieces)[1].v) % 20 = 0
    /\ Count(d, K_private) <= 1
    /\ Count(d, K_private) = 1 => ValuesOf(d.v, K_private)[1].v \in {0, 1}
    /\ \A i \in 1..Len(d.v) :
         d.v[i][1] \in {K_name, K_piece_length, K_pieces, K_private,
                        K_length, K_files}
    /\ Count(d, K_length) <= 1 /\ Count(d, K_files) <= 1
    /\ Count(d, K_files) = 1 =>
         \A i \in 1..Len(FileEntriesOf(d)) : FileEntriesOf(d)[i].path # <<>>

\* C1: for a canonically encoded info dictionary that decodes, the bytes
\* Info::hash serializes and hashes are the bytes of the original info
\* dictionary
C1_ReencodingIdentical ==
    IsSome(digestInput) /\ Canonical(FileInfo) /\ ValidButLayout(FileInfo)
      /\ Count(FileInfo, K_length) + Count(FileInfo, K_files) = 1
        => Unwrap(digestInput) = Bencode(FileInfo)

\* C2: an info dictionary that holds both `length` and `files`, in either
\* order, fails to decode, and yields no layout
C2_BothKeysRejected ==
    parsed.kind # "none" /\ ValidButLayout(FileInfo)
      /\ HasKey(FileInfo, K_length) /\ HasKey(FileInfo, K_files)
        => ~parsed.ok

\* the error of an info dictionary that holds neither key
IsMissingLayout(r) ==
    ~r.ok /\ r.kind = "missing_field" /\ r.detail = K_length_or_files

\* C3: an info dictionary that holds neither `length` nor `files` fails to
\* decode with the error of a missing layout, and one that holds both fails
\* with an error of another kind
C3_MissingLayoutDistinct ==
    parsed.kind # "none" /\ ValidButLayout(FileInfo) =>
        /\ ~HasKey(FileInfo, K_length) /\ ~HasKey(FileInfo, K_files)
             => IsMissingLayout(parsed)
        /\ HasKey(FileInfo, K_length) /\ HasKey(FileInfo, K_files)
             => ~parsed.ok /\ ~IsMissingLayout(parsed)

\* the half of C3 about the dictionary with neither key
C3_NeitherKeyIsMissingLayout ==
    parsed.kind # "none" /\ ValidButLayout(FileInfo)
      /\ ~HasKey(FileInfo, K_length) /\ ~HasKey(FileInfo, K_files)
        => IsMissingLayout(parsed)

\* C4: an otherwise valid info dictionary with `length` and no `files`
\* decodes to SingleFile with that length; with `files` and no `length` it
\* decodes to MultiFile with the file entries in document order
C4_LayoutByKey ==
    parsed.kind # "none" =>
        /\ ValidButLayout(FileInfo)
             /\ Count(FileInfo, K_length) + Count(FileInfo, K_files) = 1
             => parsed.ok
        /\ parsed.ok /\ HasKey(FileInfo, K_length) /\ ~HasKey(FileInfo, K_files)
             => /\ parsed.value.info.key.variant = "SingleFile"
                /\ parsed.value.info.key.length = ValuesOf(FileInfo.v, K_length)[1].v
        /\ parsed.ok /\ HasKey(FileInfo, K_files) /\ ~HasKey(FileInfo, K_length)
             => /\ parsed.value.info.key.variant = "MultiFile"
                /\ parsed.value.info.key.files = FileEntriesOf(FileInfo)

\* a dictionary with `files` and no `length` was decoded to two entries
C4_Witness ==
    /\ parsed.ok
    /\ ~HasKey(FileInfo, K_length)
    /\ parsed.value.info.key.variant = "MultiFile"
    /\ Len(parsed.value.info.key.files) = 2

\* C10: when the tracker is reached (the torrent names a single file and an
\* absolute tracker URL, the GET and the read of the body succeed) and the
\* body is a dictionary that holds only a `failure reason`,
\* Tracker::request returns Ok(Failure) with that reason
C10_FailureIsData ==
    /\ announce.kind # "none"
    /\ loaded.value.info.key.variant = "SingleFile"
    /\ UrlParse(loaded.value.announce).ok
    /\ tracker.getOk /\ tracker.bytesOk
    /\ tracker.body.t = "dict"
    /\ Len(tracker.body.v) = 1
    /\ tracker.body.v[1][1] = K_failure_reason
    => /\ announce.ok
       /\ announce.value.variant = "Failure"
       /\ announce.value.failure_reason = tracker.body.v[1][2].v

\* the announce was made for a single-file torrent
AnnouncedSingleFile ==
    /\ announce.kind # "none"
    /\ loaded.value.info.key.variant = "SingleFile"

\* the tracker of the announce was reached and its body was read
TrackerAnswered ==
    /\ UrlParse(loaded.value.announce).ok
    /\ tracker.getOk /\ tracker.bytesOk

\* C12: when the tracker's body decodes to neither shape of response, or
\* its `peers` string is no multiple of 6 bytes long, Tracker::request
\* returns an error value: it does not panic and returns no response
C12_UndecodableBodyIsError ==
    AnnouncedSingleFile /\ TrackerAnswered
      /\ ~DeTrackerResponse(tracker.body).ok
        => ~announce.ok /\ announce.kind # "panic"

\* C13: when the URL does not parse, or the GET fails, or the body cannot
\* be read, Tracker::request returns an error value and no response, and
\* that error differs from the outcome of the same call with a body that
\* cannot be decoded
C13_TransportFailureIsError ==
    AnnouncedSingleFile /\ ~TrackerAnswered
        => /\ ~announce.ok /\ announce.kind # "panic"
           /\ announce # TrackerRequest(loaded.value,
                              [getOk |-> TRUE, bytesOk |-> TRUE,
                               body |-> Garbage]).result

SortedFileInfo == BDict(SortEntries(FileInfo.v))

C16_EmptyPathRejected ==
    parsed.ok /\ parsed.value.info.key.variant = "MultiFile" =>
        \A i \in 1..Len(parsed.value.info.key.files) :
            Len(parsed.value.info.key.files[i].path) >= 1

RECURSIVE SumLengths(_)
\* the sum of the lengths of file entries
SumLengths(fs) ==
    IF fs = <<>> THEN 0 ELSE Head(fs).length + SumLengths(Tail(fs))

\* the content length of a decoded info value
TotalLength(info) ==
    IF info.key.variant = "SingleFile" THEN info.key.length
    ELSE SumLengths(info.key.files)

\* the least number of pieces of p bytes that hold n bytes
CeilDiv(n, p) == (n + p - 1) \div p

\* C17: in every description decoded from an otherwise valid document with
\* one of `length` and `files`, the piece length is positive and the number
\* of piece hashes is the content length divided by the piece length,
\* rounded up
C17_PieceCountMatches ==
    parsed.ok /\ ValidButLayout(FileInfo)
      /\ Count(FileInfo, K_length) + Count(FileInfo, K_files) = 1 =>
        /\ parsed.value.info.piece_length > 0
        /\ Len(parsed.value.info.pieces)
             = CeilDiv(TotalLength(parsed.value.info),
                       parsed.value.info.piece_length)

\* dictionary d without its entries of key k
WithoutKey(d, k) == BDict(SelectSeq(d.v, LAMBDA e : e[1] # k))

\* C18: an otherwise valid info dictionary decodes whatever integer its
\* `private` entry holds, values above 255 included, and the flag of the
\* decoded value is false when the entry is absent or 0 and true otherwise
C18_PrivateAnyNonzero ==
    /\ parsed.kind # "none"
    /\ ValidButLayout(WithoutKey(FileInfo, K_private))
    /\ Count(FileInfo, K_length) + Count(FileInfo, K_files) = 1
    /\ Count(FileInfo, K_private) <= 1
    => /\ parsed.ok
       /\ InfoPrivate(parsed.value.info)
            = (/\ Count(FileInfo, K_private) = 1
               /\ ValuesOf(FileInfo.v, K_private)[1].v # 0)

\* the part of C18 about the values a u8 holds
C18_PrivateOfSmallValues ==
    /\ parsed.ok
    /\ Count(FileInfo, K_private) = 1
    => InfoPrivate(parsed.value.info) = (ValuesOf(FileInfo.v, K_private)[1].v # 0)

\* the keys of the info dictionary that the decoder of meta_info.rs knows
KnownKeys == {K_name, K_piece_length, K_pieces, K_private, K_length, K_files}

HasUnknownKey(d) == \E i \in 1..Len(d.v) : d.v[i][1] \notin KnownKeys

\* dictionary d without the entries of keys the decoder does not know
WithoutUnknown(d) == BDict(SelectSeq(d.v, LAMBDA e : e[1] \in KnownKeys))

\* C20: an info dictionary that holds a key other than name, piece length,
\* pieces, private, length and files never decodes, wherever the key
\* stands; when the rest of the dictionary is valid the error is that of an
\* unknown field, and it names the key
C20_UnknownKeyRejected ==
    parsed.kind # "none" /\ HasUnknownKey(FileInfo) =>
        /\ ~parsed.ok /\ ~loaded.ok
        /\ ValidButLayout(WithoutUnknown(FileInfo))
             => /\ parsed.kind = "unknown_field"
                /\ parsed.detail \notin KnownKeys
                /\ HasKey(FileInfo, parsed.detail)

\* `md5sum` stood between `name` and `length`, the keys in descending
\* order, and the dictionary was rejected for it
C20_Witness ==
    /\ parsed.kind = "unknown_field"
    /\ parsed.detail = K_md5sum
    /\ HasKey(FileInfo, K_length)
    /\ ~Canonical(FileInfo)
    /\ loaded.kind = "BencodeParseFailed"

\* the places in dictionary d where `length` or `files` stands again
SecondOccurrences(d) ==
    {i \in 1..Len(d.v) :
        /\ d.v[i][1] \in {K_length, K_files}
        /\ \E j \in 1..(i - 1) : d.v[j][1] = d.v[i][1]}

\* the least member of a non-empty set of numbers
Least(S) == CHOOSE i \in S : \A j \in S : i <= j

\* apart from its `length` and `files` entries, d is a valid info dictionary
ValidButLayoutEntries(d) ==
    ValidButLayout(WithoutKey(WithoutKey(d, K_length), K_files))

\* C21: an info dictionary in which `length` or `files` stands twice never
\* decodes; when the rest of the dictionary is valid the error is that of a
\* duplicate field and names the key whose second occurrence comes first
C21_DuplicateRejected ==
    parsed.kind # "none" /\ SecondOccurrences(FileInfo) # {} =>
        /\ ~parsed.ok /\ ~loaded.ok
        /\ ValidButLayoutEntries(FileInfo)
             => /\ parsed.kind = "duplicate_field"
                /\ parsed.detail
                     = FileInfo.v[Least(SecondOccurrences(FileInfo))][1]

\* `files` stood twice in an otherwise valid dictionary with no `length`,
\* and the dictionary was rejected for it
C21_Witness ==
    /\ parsed.kind = "duplicate_field"
    /\ parsed.detail = K_files
    /\ Count(FileInfo, K_files) = 2
    /\ ~HasKey(FileInfo, K_length)
    /\ ValidButLayoutEntries(FileInfo)

\* C23: a call of Tracker::request on a single-file torrent issues at most
\* one GET, none when the URL does not parse and one when it does, and ends
\* with a response or with an error value
C23_OneRoundTrip ==
    AnnouncedSingleFile =>
        /\ Len(sent) <= 1
        /\ UrlParse(loaded.value.announce).ok <=> Len(sent) = 1
        /\ announce.ok \/ announce.kind = "unit"

\* C24: building the request of an announce on a single-file torrent does
\* not fail over the bytes of the digest: the call does not panic on the
\* encoding of info_hash, and when the URL parses the GET carries an
\* info_hash made from the digest of the info value
C24_InfoHashEncoded ==
    AnnouncedSingleFile =>
        /\ announce.kind = "panic"
             => announce.detail # "failed to urlencode info_hash bytes"
        /\ UrlParse(loaded.value.announce).ok
             => /\ Len(sent) = 1
                /\ sent[1].query.info_hash
                     = UrlencodedStringFromBytes(InfoHash(loaded.value.info)).value

AllOrNothing(r, p) ==
    /\ ~file.exists => r = Err("InvalidPath", <<>>) /\ p = NoResult
    /\ file.exists /\ ~file.readable
         => r = Err("UnableToReadFile", <<>>) /\ p = NoResult
    /\ file.exists /\ file.readable /\ ~p.ok
         => r = Err("BencodeParseFailed", <<>>)
    /\ file.exists /\ file.readable /\ p.ok => r = Ok(p.value)
    /\ r.ok => /\ DOMAIN r.value = {"announce", "info"}
               /\ {"name", "piece_length", "pieces", "key"}
                    \subseteq DOMAIN r.value.info

\* C26: MetaInfo::try_from, and Torrent::try_from of the Info command,
\* return the whole decoded description or one error: InvalidPath for a
\* path that does not exist, with nothing read, UnableToReadFile for a file
\* that cannot be read, BencodeParseFailed for bytes that do not decode
C26_AllOrNothing ==
    /\ loaded.kind # "none" => AllOrNothing(loaded, parsed)
    /\ torrent.kind # "none" => AllOrNothing(torrent, torrentParsed)

\* try_from was given a file whose info dictionary decodes up to its
\* layout, which is missing, and returned the one error
C26_Witness ==
    /\ file.exists /\ file.readable
    /\ parsed.kind = "missing_field"
    /\ loaded = Err("BencodeParseFailed", <<>>)

\* try_from of the Info command was given a file that does not decode
C26_TorrentWitness ==
    /\ torrent.kind = "BencodeParseFailed"
    /\ ~torrentParsed.ok

---------------------------------------------------------------------------
(* Properties of the piece-hash codec, under SpecHashes *)

\* C5: decoding `pieces` fails, and yields no hash list, for every length
\* that is not a multiple of 20, and succeeds for every multiple of 20;
\* length 0 yields the empty sequence
C5_PiecesLengthChecked ==
    hashes.kind # "none" =>
        /\ Len(hashWire) % 20 # 0 => ~hashes.ok /\ hashes.kind = "custom"
        /\ Len(hashWire) % 20 = 0 => hashes.ok
        /\ Len(hashWire) = 0 => hashes.ok /\ hashes.value = <<>>

\* a `pieces` string of 21 bytes was rejected
C5_Witness == Len(hashWire) = 21 /\ hashes.kind = "custom"

\* C6: decoding a byte string of length 20*n into hashes and encoding the
\* hashes back reproduces the byte string
C6_HashesRoundTrip ==
    IsSome(hashOut) => Unwrap(hashOut) = hashWire

\* two hashes were decoded and encoded back
C6_Witness == IsSome(hashOut) /\ Len(hashWire) = 40 /\ hashWire[21] # hashWire[1]

\* C7: the decoded list of a 20*n byte string has n entries, and entry i
\* (from 0) holds the bytes at positions 20*i .. 20*i+19 of the input
C7_ChunksConsecutive ==
    hashes.ok =>
        /\ Len(hashes.value) * 20 = Len(hashWire)
        /\ \A i \in 0..(Len(hashes.value) - 1) :
              /\ Len(hashes.value[i + 1]) = 20
              /\ \A j \in 0..19 :
                    hashes.value[i + 1][j + 1] = hashWire[20 * i + j + 1]

\* two distinct hashes were decoded
C7_Witness ==
    hashes.ok /\ Len(hashes.value) = 2 /\ hashes.value[1] # hashes.value[2]

---------------------------------------------------------------------------
(* Properties of the compact peer codec, under SpecPeers *)

\* C8: a compact peers string of length 6*n decodes to n peers in input
\* order; peer i (from 0) has the octets at 6i..6i+3 and the port
\* 256 * byte(6i+4) + byte(6i+5); [192,168,1,1,0x1A,0xE1] is
\* 192.168.1.1 port 6881
C8_PeersDecoded ==
    /\ peers.kind # "none" /\ Len(peerWire) % 6 = 0 => peers.ok
    /\ peers.ok =>
          /\ Len(peers.value) * 6 = Len(peerWire)
          /\ \A i \in 0..(Len(peers.value) - 1) :
                /\ peers.value[i + 1].ip =
                      <<peerWire[6 * i + 1], peerWire[6 * i + 2],
                        peerWire[6 * i + 3], peerWire[6 * i + 4]>>
                /\ peers.value[i + 1].port =
                      256 * peerWire[6 * i + 5] + peerWire[6 * i + 6]
    /\ peers.ok /\ peerWire = <<192, 168, 1, 1, 26, 225>> =>
          peers.value = <<[ip |-> <<192, 168, 1, 1>>, port |-> 6881]>>

\* 10.0.0.2:80 followed by 192.168.1.1:6881 was decoded
C8_Witness ==
    /\ peers.ok
    /\ Len(peers.value) = 2
    /\ peers.value[2] = [ip |-> <<192, 168, 1, 1>>, port |-> 6881]
    /\ peers.value[1].port = 80

\* C9: decoding a compact peers string of length 6*n and encoding the
\* peers back reproduces the same bytes, 6 per peer
C9_PeersRoundTrip ==
    IsSome(peerOut) =>
        /\ Unwrap(peerOut) = peerWire
        /\ Len(Unwrap(peerOut)) = 6 * Len(peers.value)

\* 192.168.1.1:6881 was decoded and encoded back
C9_Witness ==
    /\ IsSome(peerOut)
    /\ peers.value = <<[ip |-> <<192, 168, 1, 1>>, port |-> 6881]>>


---------------------------------------------------------------------------
(* Properties of the Info command, under SpecInfo *)

\* an info dictionary that is valid, with one of `length` and `files`, and
\* with `private` absent or 0 or 1
ValidInfo(d) ==
    /\ ValidButLayout(d)
    /\ Count(d, K_length) + Count(d, K_files) = 1

\* C19: a valid info dictionary decodes with and without a `private` entry
\* through both entry points: MetaInfo::try_from, and Torrent::try_from of
\* the Info command
C19_PrivateOptional ==
    /\ parsed.kind # "none" /\ ValidInfo(FileInfo) => parsed.ok /\ loaded.ok
    /\ torrentParsed.kind # "none" /\ ValidInfo(FileInfo)
         => torrentParsed.ok /\ torrent.ok

\* the part of C19 about documents without `private`
C19_WithoutPrivate ==
    torrentParsed.kind # "none" /\ ValidInfo(FileInfo)
      /\ ~HasKey(FileInfo, K_private)
        => torrent.ok /\ Len(printed) = 2

---------------------------------------------------------------------------
(* Properties of the methods of App, under SpecApp *)

\* the tabs in their order
TabOrder == <<"Torrents", "Settings", "Search">>

\* the place of a tab in the order
Place(tab) == CHOOSE i \in 1..Len(TabOrder) : TabOrder[i] = tab

\* C27: next_tab moves the selected tab one place forward in the order
\* Torrents, Settings, Search and leaves Search where it is; previous_tab
\* moves it one place back and leaves Torrents where it is; no other
\* method moves it; the selected tab is always one of the three
C27_TabsSaturate ==
    [][/\ \E i \in 1..Len(TabOrder) : app'.selected_tab = TabOrder[i]
       /\ lastCall' = "next_tab"
            => app'.selected_tab
                 = IF app.selected_tab = "Search" THEN "Search"
                   ELSE TabOrder[Place(app.selected_tab) + 1]
       /\ lastCall' = "previous_tab"
            => app'.selected_tab
                 = IF app.selected_tab = "Torrents" THEN "Torrents"
                   ELSE TabOrder[Place(app.selected_tab) - 1]
       /\ lastCall' \notin {"next_tab", "previous_tab"}
            => app'.selected_tab = app.selected_tab]_vars

\* previous_tab was called, the first tab is selected, and the search
\* input holds text
C27_Witness ==
    /\ lastCall = "previous_tab"
    /\ app.selected_tab = "Torrents"
    /\ app.value # <<>>

---------------------------------------------------------------------------
(* Properties of the key loop of App::run, under SpecRun *)

\* C29: in the key loop, editing is on only while the Search tab is
\* selected: every turn of the loop leaves editing on only with Search
\* selected, turns editing on only on '/' with Search selected, leaves the
\* selected tab alone while editing is on, ends the loop through 'q' only
\* while editing is off, and while editing is on inserts the 'q' at the
\* cursor and goes on
C29_EditingOnlyOnSearch ==
    [][/\ app'.editing => app'.selected_tab = "Search"
       /\ ~app.editing /\ app'.editing
            => /\ lastKey'.code = "Char" /\ lastKey'.char = 47
               /\ app.selected_tab = "Search"
       /\ app.editing => app'.selected_tab = app.selected_tab
       /\ uiState' = "quit"
            => ~app.editing /\ lastKey'.code = "Char" /\ lastKey'.char = 113
       /\ app.editing /\ lastKey'.code = "Char" /\ lastKey'.char = 113
            => /\ uiState' = "running"
               /\ app'.editing
               /\ Len(app'.value) = Len(app.value) + 1
               /\ app'.value[app.cursor_index + 1] = 113]_vars

\* 'q' was pressed while editing on the Search tab: it is in the search
\* text and the loop goes on
C29_Witness ==
    /\ app.editing
    /\ app.selected_tab = "Search"
    /\ lastKey = Key("Char", 113, FALSE)
    /\ \E i \in 1..Len(app.value) : app.value[i] = 113
    /\ uiState = "running"

---------------------------------------------------------------------------
(* Properties of the search input of App, under SpecApp *)

\* C30: after any sequence of enter_char, delete_char, delete_word,
\* move_cursor_left and move_cursor_right from the empty input, no call has
\* panicked and the cursor index is between 0 and the number of chars of
\* the search text
C30_CursorInBounds ==
    /\ uiState # "panic"
    /\ 0 <= app.cursor_index
    /\ app.cursor_index <= Len(app.value)

\* the part of C30 about the cursor index
C30_CursorIndexInBounds ==
    0 <= app.cursor_index /\ app.cursor_index <= Len(app.value)

---------------------------------------------------------------------------
(* Properties of the decoding of a tracker's answer, under SpecResponse *)

\* C11: a body that holds `failure reason` decodes to Failure, also when a
\* valid `interval` and `peers` stand beside it; a body decodes to Success
\* only when it holds no `failure reason` and holds both `interval` and
\* `peers`
C11_FailureKeyWins ==
    response.kind # "none" /\ respWire.t = "dict" =>
        /\ HasKey(respWire, K_failure_reason)
             => response.ok /\ response.value.variant = "Failure"
        /\ response.ok /\ response.value.variant = "Success"
             => /\ ~HasKey(respWire, K_failure_reason)
                /\ HasKey(respWire, K_interval) /\ HasKey(respWire, K_peers)

=============================================================================
